---- MODULE Spec2Model ----
(***************************************************************************)
(* Model of src/app.py: the LabVIEW .lvm viewer.                           *)
(*                                                                         *)
(* Text is a sequence of tokens.  A token stands for one character or for  *)
(* a run of characters that no operation of the program splits: "\n" ends  *)
(* a line, "\t" separates fields, " " is a blank, INVALID is a byte that   *)
(* is not valid UTF-8, every other token is a word.  Numbers are integers  *)
(* (one unit = one second).                                                *)
(***************************************************************************)
EXTENDS Integers, Sequences, FiniteSets, TLC

\* ------------------------------------------------------------------ bounds
MaxLines == 3       \* lines of a text handed to the header locator (SpecLocate)
MaxRows == 2        \* data rows of an uploaded file
MaxStep == 2        \* largest "Every Nth point" the user can enter
MaxRuns == 2        \* script runs in one session

\* ------------------------------------------------------------ text helpers
NL == "\n"
TAB == "\t"
SP == " "
INVALID == "<0xFF>"
SENTINEL == "***End_of_Header***"
WS == {SP, TAB}

\* F applied to the value of v (a local assignment: v is computed once)
Bind(v, F(_)) == CHOOSE y \in {F(x) : x \in {v}} : TRUE

Max2(a, b) == IF a >= b THEN a ELSE b
Min2(a, b) == IF a <= b THEN a ELSE b
SetMax(S) == CHOOSE m \in S : \A x \in S : x <= m
SetMin(S) == CHOOSE m \in S : \A x \in S : m <= x

\* the numbers of S in increasing order
AscendingOf(S) == [k \in 1..Cardinality(S) |->
                      CHOOSE x \in S : Cardinality({y \in S : y < x}) = k - 1] \o <<>>
Ascending(S) == Bind(S, AscendingOf)

\* the elements of q at the positions idx, in that order
AtOf(q, idx) == [k \in 1..Len(idx) |-> q[idx[k]]] \o <<>>
At(q, idx) == Bind(idx, LAMBDA i : AtOf(q, i))

RECURSIVE Join(_, _)
Join(parts, sep) == IF parts = <<>> THEN <<>>
                    ELSE IF Len(parts) = 1 THEN parts[1]
                    ELSE parts[1] \o <<sep>> \o Join(Tail(parts), sep)

\* bytes.decode("utf-8", errors="ignore"): invalid bytes are dropped
Valid(b) == b # INVALID
decode(file_bytes) == SelectSeq(file_bytes, Valid)

\* the pieces of q between the separators at the positions P (increasing)
PiecesOf(q, P) ==
    [k \in 1..(Len(P) + 1) |->
        SubSeq(q, IF k = 1 THEN 1 ELSE P[k - 1] + 1,
                  IF k = Len(P) + 1 THEN Len(q) ELSE P[k] - 1)] \o <<>>
SplitOn(q, sep) == Bind(Ascending({i \in 1..Len(q) : q[i] = sep}), LAMBDA P : PiecesOf(q, P))

\* str.splitlines(): the lines; no empty last line after a final line break
DropLastIfEmpty(parts) == IF parts[Len(parts)] = <<>> THEN SubSeq(parts, 1, Len(parts) - 1)
                          ELSE parts
splitlines(text) == Bind(SplitOn(text, NL), DropLastIfEmpty)

\* line.split("\t"): the fields of a line
split(line) == SplitOn(line, TAB)

\* str.strip(): blanks and tabs removed at both ends
strip(q) == LET keep == {i \in 1..Len(q) : q[i] \notin WS}
            IN IF keep = {} THEN <<>> ELSE SubSeq(q, SetMin(keep), SetMax(keep))

\* ---------------------------------------------------------- header locator
NoSentinelMsg == "RuntimeError: Couldn't find ***End_of_Header*** in the file."

RECURSIVE ScanLines(_, _, _)
\* a scan that keeps the first sentinel line instead of the last
ScanLinesFirst(lines, i, end_idx) ==
    LET M == {k \in 1..Len(lines) : strip(lines[k]) = <<SENTINEL>>}
    IN IF M = {} THEN -1 ELSE SetMin(M) - 1
\* the loop of find_data_start_from_bytes: i is the 1-based position of the
\* line looked at, end_idx the 0-based index of the last match so far
ScanLines(lines, i, end_idx) ==
    IF i > Len(lines) THEN end_idx
    ELSE Bind(IF strip(lines[i]) = <<SENTINEL>> THEN i - 1 ELSE end_idx,
              LAMBDA e : ScanLines(lines, i + 1, e))

\* a locator that never raises: without a sentinel the data starts at row 0
LocatedOrRowZero(text, end_idx) ==
    [exc |-> "", start_row |-> end_idx + 1, text |-> text]
\* raise RuntimeError when end_idx == -1, else return end_idx + 1, text
Located(text, end_idx) ==
    IF end_idx = -1
    THEN [exc |-> NoSentinelMsg, start_row |-> -1, text |-> text]
    ELSE [exc |-> "", start_row |-> end_idx + 1, text |-> text]

find_data_start_from_bytes(file_bytes) ==
    Bind(decode(file_bytes), LAMBDA text :
        Bind(splitlines(text), LAMBDA lines : Located(text, ScanLines(lines, 1, -1))))

\* ------------------------------------------------------------------ tables
\* A cell is a tagged value: a number, a text (the field as read) or NaN.
Num(n) == [k |-> "num", v |-> n, s |-> <<>>]
Str(f) == [k |-> "str", v |-> 0, s |-> f]
NaN == [k |-> "nan", v |-> 0, s |-> <<>>]

\* The numeric literals of the model's texts and the numbers they parse to.
NumText == [t \in {"0", "1", "2", "3", "5"} |->
              CASE t = "0" -> 0 [] t = "1" -> 1 [] t = "2" -> 2 [] t = "3" -> 3 [] t = "5" -> 5]
\* a field parses as a number: one numeric literal, blanks around it allowed
IsNumber(f) == Len(strip(f)) = 1 /\ strip(f)[1] \in DOMAIN NumText
ParseNumber(f) == NumText[strip(f)[1]]

\* the decimal text of a small index, as str(i) writes it
Decimal(i) == <<"0", "1", "2", "3", "4", "5", "6", "7", "8", "9", "10", "11",
                "12", "13", "14", "15", "16", "17">>[i + 1]

\* A table: column labels, row labels and the cells, row by row.
NoTable == [columns |-> <<>>, index |-> <<>>, data |-> <<>>, none |-> TRUE]
Table(c, i, d) == [columns |-> c, index |-> i, data |-> d, none |-> FALSE]
RangeIndex(n) == [i \in 1..n |-> Num(i - 1)] \o <<>>

\* the rows / columns of df at the given positions, in the given order
TakeRows(df, idx) == Table(df.columns, AtOf(df.index, idx), AtOf(df.data, idx))
TakeCols(df, idx) == Table(AtOf(df.columns, idx), df.index,
                           [i \in 1..Len(df.data) |-> AtOf(df.data[i], idx)] \o <<>>)
\* df[c]: the positions of the columns labelled c (one: a Series, more: a DataFrame)
Positions(df, c) == {j \in 1..Len(df.columns) : df.columns[j] = c}

\* --------------------------------------------------------------- pd.read_csv
NotBlank(line) == line # <<>>

\* header names: an empty name becomes "Unnamed: j", a repeated name gets ".k"
HeaderName(header, j) ==
    LET base == IF header[j] = <<>> THEN <<"Unnamed: ", Decimal(j - 1)>> ELSE header[j]
        seen == Cardinality({i \in 1..(j - 1) : header[i] = header[j]})
    IN IF seen = 0 THEN base ELSE base \o <<".", Decimal(seen)>>

\* the table of a header and its data rows (each a sequence of fields)
ParsedTable(header, rows) ==
    LET n == Len(rows)
        width == IF n = 0 THEN Len(header) ELSE Max2(Len(header), Len(rows[1]))
        lead == width - Len(header)
        field(i, j) == IF j <= Len(rows[i]) THEN rows[i][j] ELSE <<>>
        numeric(j) == \A i \in 1..n : field(i, j) = <<>> \/ IsNumber(field(i, j))
        cell(i, j) == IF field(i, j) = <<>> THEN NaN
                      ELSE IF numeric(j) THEN Num(ParseNumber(field(i, j)))
                      ELSE Str(field(i, j))
    IN IF \E i \in 1..n : Len(rows[i]) > width
       THEN [exc |-> "ParserError: Error tokenizing data", df |-> NoTable]
       ELSE [exc |-> "",
             df |-> Table([j \in 1..Len(header) |-> HeaderName(header, j)] \o <<>>,
                          IF lead = 0 THEN RangeIndex(n) ELSE [i \in 1..n |-> cell(i, 1)] \o <<>>,
                          [i \in 1..n |-> [j \in 1..Len(header) |-> cell(i, lead + j)] \o <<>>]
                              \o <<>>)]

\* pd.read_csv(io.StringIO(txt), sep="\t", skiprows=start_row): the first line
\* left is the header; blank lines are skipped; a short row is padded with
\* missing values; the first data row may be wider than the header, and its
\* extra leading fields are then the row labels; a later row wider than that
\* is a ParserError; a column whose fields all parse is numeric, any other
\* column keeps its fields as text; an empty field is NaN.
ReadLines(rest) ==
    IF rest = <<>> THEN [exc |-> "EmptyDataError: No columns to parse from file", df |-> NoTable]
    ELSE Bind([i \in 1..Len(rest) |-> split(rest[i])] \o <<>>,
              LAMBDA fields : ParsedTable(Head(fields), Tail(fields)))
read_csv(txt, skiprows) ==
    Bind(splitlines(txt), LAMBDA all :
        Bind(SelectSeq(SubSeq(all, skiprows + 1, Len(all)), NotBlank), ReadLines))

\* ------------------------------------------------------------ label map
XVALUE == <<"X_Value">>

\* TEMP_TO_LABEL: Temperature_i -> display label
TEMP_TO_LABEL ==
    [i \in 0..17 |->
        IF i <= 11 THEN <<"NB", SP, "Dump", SP, "TC#", Decimal(i + 1)>>
        ELSE IF i <= 14 THEN <<"NB", SP, "Scraper", SP, "Lower", SP, "TC#", Decimal(i - 11)>>
        ELSE <<"NB", SP, "Scraper", SP, "Upper", SP, "TC#", Decimal(i - 11)>>]

\* word in label
Contains(label, word) == \E p \in 1..Len(label) : label[p] = word
DUMP_KEYS == {key \in DOMAIN TEMP_TO_LABEL : Contains(TEMP_TO_LABEL[key], "Dump")}
SCRAPER_KEYS == {key \in DOMAIN TEMP_TO_LABEL : Contains(TEMP_TO_LABEL[key], "Scraper")}

\* f"Temperature_{idx}"
TemperatureCol(idx) == <<"Temperature_", Decimal(idx)>>

\* ------------------------------------------------------------------ load_lvm
NoXValueMsg == "RuntimeError: X_Value column not found in this LVM."
\* pd.to_numeric of df[c] when c labels several columns (a DataFrame)
NotSeriesMsg == "TypeError: arg must be a list, tuple, 1-d array, or Series"

Column(df, j) == [i \in 1..Len(df.data) |-> df.data[i][j]] \o <<>>
SetColumnOf(df, j, vals) ==
    Table(df.columns, df.index,
          [i \in 1..Len(df.data) |-> [df.data[i] EXCEPT ![j] = vals[i]]] \o <<>>)
SetColumn(df, j, vals) == Bind(vals, LAMBDA w : SetColumnOf(df, j, w))

\* df.columns = [c.strip() for c in df.columns]
StripColumns(df) ==
    Table([j \in 1..Len(df.columns) |-> strip(df.columns[j])] \o <<>>, df.index, df.data)

\* df.dropna(axis=1, how="all"): a column is kept when it holds a value
DropEmptyColumns(df) ==
    Bind(Ascending({j \in 1..Len(df.columns) :
                       \E i \in 1..Len(df.data) : df.data[i][j].k # "nan"}),
         LAMBDA idx : TakeCols(df, idx))

\* one value under pd.to_numeric
ToNumber(cell) == IF cell.k = "str" /\ IsNumber(cell.s) THEN Num(ParseNumber(cell.s)) ELSE cell
Parses(cell) == cell.k # "str" \/ IsNumber(cell.s)

\* pd.to_numeric(series, errors="coerce"): what does not parse becomes NaN
ToNumericCoerce(col) ==
    [i \in 1..Len(col) |-> IF Parses(col[i]) THEN ToNumber(col[i]) ELSE NaN] \o <<>>

\* a coercion that converts value by value and leaves the others as text
ToNumericPerValue(col) == [i \in 1..Len(col) |-> ToNumber(col[i])] \o <<>>
\* pd.to_numeric(series, errors="ignore"): if one value does not parse, the
\* input is returned as it is
ToNumericIgnore(col) ==
    IF \A i \in 1..Len(col) : Parses(col[i]) THEN [i \in 1..Len(col) |-> ToNumber(col[i])] \o <<>>
    ELSE col

\* df.dropna(subset=["X_Value"]): the rows whose X_Value is not NaN
DropNaRows(df, j) ==
    Bind(Ascending({i \in 1..Len(df.data) : df.data[i][j].k # "nan"}),
         LAMBDA idx : TakeRows(df, idx))

\* a table that keeps the row labels it had before the rows were dropped
ResetIndexNever(df) == df
\* .reset_index(drop=True)
ResetIndex(df) == Table(df.columns, RangeIndex(Len(df.data)), df.data)

\* for c in df.columns: if c != "X_Value": df[c] = pd.to_numeric(df[c], errors="ignore")
RECURSIVE CoerceSignals(_, _)
CoerceSignals(df, j) ==
    IF j > Len(df.columns) THEN df
    ELSE Bind(IF df.columns[j] # XVALUE
              THEN SetColumn(df, j, ToNumericIgnore(Column(df, j)))
              ELSE df,
              LAMBDA next : CoerceSignals(next, j + 1))

\* rename_map and df.rename(columns=rename_map)
RenameMap(df) == {idx \in DOMAIN TEMP_TO_LABEL : Positions(df, TemperatureCol(idx)) # {}}
RenameColumns(df) ==
    Table([j \in 1..Len(df.columns) |->
              IF \E idx \in RenameMap(df) : df.columns[j] = TemperatureCol(idx)
              THEN TEMP_TO_LABEL[CHOOSE idx \in RenameMap(df) : df.columns[j] = TemperatureCol(idx)]
              ELSE df.columns[j]] \o <<>>,
          df.index, df.data)

Raise(msg) == [exc |-> msg, df |-> NoTable]

\* lines 62-79 of load_lvm, on the table that has its time column at x
Normalize(df2, x) ==
    Bind(SetColumn(df2, x, ToNumericCoerce(Column(df2, x))), LAMBDA df3 :
      Bind(DropNaRows(df3, x), LAMBDA dropped :
        Bind(ResetIndex(dropped), LAMBDA df4 :
          IF \E j \in 1..Len(df4.columns) :
                df4.columns[j] # XVALUE /\ Cardinality(Positions(df4, df4.columns[j])) > 1
          THEN Raise(NotSeriesMsg)
          ELSE Bind(CoerceSignals(df4, 1), LAMBDA df5 :
                 [exc |-> "", df |-> RenameColumns(df5)]))))

\* lines 55-60 of load_lvm, on what read_csv gave
Clean(parsed) ==
    IF parsed.exc # "" THEN Raise(parsed.exc)
    ELSE Bind(StripColumns(parsed.df), LAMBDA stripped :
           Bind(DropEmptyColumns(stripped), LAMBDA df2 :
             IF Positions(df2, XVALUE) = {} THEN Raise(NoXValueMsg)
             ELSE IF Cardinality(Positions(df2, XVALUE)) > 1 THEN Raise(NotSeriesMsg)
             ELSE Normalize(df2, CHOOSE j \in Positions(df2, XVALUE) : TRUE)))

\* the body of load_lvm on the bytes uploaded_file.read() returned
load_lvm(raw) ==
    Bind(find_data_start_from_bytes(raw), LAMBDA loc :
        IF loc.exc # "" THEN Raise(loc.exc)
        ELSE Bind(read_csv(loc.text, loc.start_row), Clean))

\* -------------------------------------------------------------------- state
VARIABLES
    up,           \* the file_uploader's value: NoUpload or the upload, its bytes and read position
    cache,        \* st.cache_data's memo of load_lvm for this upload
    runs,         \* script runs started with a file uploaded
    pc,           \* where the script run is
    tmin, tmax, downsample, step,   \* the sidebar's values in this run
    messages,     \* st.info / st.warning / st.error shown in this run
    load_exc,     \* "unset", "" (load_lvm returned) or the exception it raised
    executed,     \* the body of load_lvm ran in this run (no cache hit)
    raw,          \* the bytes uploaded_file.read() gave it
    df,           \* the Signal Table
    crash,        \* the exception that ended the run uncaught, "" if none
    xmin, xmax,
    df_win,       \* the Windowed View
    ycols_all, default_sel, sel,
    plot_df, fig, summary,
    first_load,   \* what the first call of load_lvm on this upload gave
    located       \* SpecLocate: what find_data_start_from_bytes gave

vars == <<up, cache, runs, pc, tmin, tmax, downsample, step, messages, load_exc,
          executed, raw, df, crash, xmin, xmax, df_win, ycols_all, default_sel, sel,
          plot_df, fig, summary, first_load, located>>

NoUpload == [data |-> <<>>, pos |-> 0, none |-> TRUE]
Upload(bytes) == [data |-> bytes, pos |-> 0, none |-> FALSE]
NoEntry == [stored |-> FALSE, value |-> NoTable]
NoOutcome == [exc |-> "unset", df |-> NoTable]
NoFigure == [drawn |-> FALSE, traces |-> <<>>]
NoSummary == [shown |-> FALSE, xmin |-> -1, xmax |-> -1, tmin |-> -1, tmax |-> -1,
              rows |-> -1, preview |-> NoTable]
NotLocated == [exc |-> "unset", start_row |-> -1, text |-> <<>>]

\* the widgets' default values
DefaultTmin == 10
DefaultTmax == 20
DefaultStep == 5
\* df_win.head(500)
HeadRows == 500

\* what a script run starts from
RunStart ==
    /\ pc' = "sidebar"
    /\ tmin' = -1 /\ tmax' = -1 /\ downsample' = FALSE /\ step' = 1
    /\ messages' = <<>> /\ load_exc' = "unset" /\ executed' = FALSE /\ raw' = <<>>
    /\ df' = NoTable /\ crash' = "" /\ xmin' = -1 /\ xmax' = -1
    /\ df_win' = NoTable /\ ycols_all' = <<>> /\ default_sel' = <<>> /\ sel' = <<>>
    /\ plot_df' = NoTable /\ fig' = NoFigure /\ summary' = NoSummary

Init ==
    /\ up = NoUpload /\ cache = NoEntry /\ runs = 0
    /\ pc = "sidebar"
    /\ tmin = -1 /\ tmax = -1 /\ downsample = FALSE /\ step = 1
    /\ messages = <<>> /\ load_exc = "unset" /\ executed = FALSE /\ raw = <<>>
    /\ df = NoTable /\ crash = "" /\ xmin = -1 /\ xmax = -1
    /\ df_win = NoTable /\ ycols_all = <<>> /\ default_sel = <<>> /\ sel = <<>>
    /\ plot_df = NoTable /\ fig = NoFigure /\ summary = NoSummary
    /\ first_load = NoOutcome /\ located = NotLocated

Message(kind, msg) == <<[kind |-> kind, text |-> msg]>>
Errors == {i \in 1..Len(messages) : messages[i].kind = "error"}

\* ------------------------------------------------------------ script steps
\* lines 101-119: the sidebar's widgets, tmax raised to tmin, stop without a file
SidebarWith(tmin_in, tmax_in, downsample_in, step_in) ==
    /\ pc = "sidebar"
    /\ tmin' = tmin_in
    /\ tmax' = IF tmax_in < tmin_in THEN tmin_in ELSE tmax_in
    /\ downsample' = downsample_in
    /\ step' = step_in
    /\ messages' = (IF tmax_in < tmin_in
                    THEN Message("warning", "tmax < tmin - adjusted to match tmin") ELSE <<>>)
                   \o (IF up.none THEN Message("info", "Upload a .lvm file to begin.") ELSE <<>>)
    /\ pc' = IF up.none THEN "stopped" ELSE "load"
    /\ runs' = IF up.none THEN runs ELSE runs + 1
    /\ UNCHANGED <<up, cache, load_exc, executed, raw, df, crash, xmin, xmax, df_win,
                   ycols_all, default_sel, sel, plot_df, fig, summary, first_load, located>>

\* the times a user enters: below, inside and above the times of the files
UserTimes == {0, 1, 2, 3}

Sidebar ==
    \E tmin_in \in UserTimes, tmax_in \in UserTimes,
       downsample_in \in BOOLEAN, step_in \in 1..MaxStep :
        SidebarWith(tmin_in, tmax_in, downsample_in, step_in)

\* the sidebar with every widget left at its default
SidebarDefaults == SidebarWith(DefaultTmin, DefaultTmax, FALSE, DefaultStep)

\* uploaded_file.read(): the bytes from the read position on
Read(u) == SubSeq(u.data, u.pos + 1, Len(u.data))

\* lines 122-126, the memo answering: st.cache_data returns the stored table
LoadHit ==
    /\ pc = "load"
    /\ cache.stored
    /\ df' = cache.value
    /\ load_exc' = ""
    /\ pc' = "clip"
    /\ UNCHANGED <<up, cache, runs, tmin, tmax, downsample, step, messages, executed, raw,
                   crash, xmin, xmax, df_win, ycols_all, default_sel, sel, plot_df,
                   fig, summary, first_load, located>>

\* lines 122-126, the body of load_lvm running (nothing stored, or the entry
\* gone: a raised exception is not stored, and the memo can be cleared)
LoadMiss ==
    /\ pc = "load"
    /\ \E r \in {load_lvm(Read(up))} :
          /\ raw' = Read(up)
          /\ up' = [up EXCEPT !.pos = Len(up.data)]
          /\ executed' = TRUE
          /\ load_exc' = r.exc
          /\ df' = r.df
          /\ first_load' = IF first_load = NoOutcome THEN r ELSE first_load
          /\ IF r.exc = ""
             THEN /\ cache' = [stored |-> TRUE, value |-> r.df]
                  /\ messages' = messages
                  /\ pc' = "clip"
             ELSE /\ cache' = cache
                  /\ messages' = messages \o Message("error", r.exc)
                  /\ pc' = "stopped"
    /\ UNCHANGED <<runs, tmin, tmax, downsample, step, crash, xmin, xmax, df_win,
                   ycols_all, default_sel, sel, plot_df, fig, summary, located>>

Load == LoadHit \/ LoadMiss

\* the numbers of df["X_Value"], NaN left out as np.nanmin / np.nanmax do
XPos(t) == CHOOSE j \in Positions(t, XVALUE) : TRUE
XNumbers(t) == {t.data[i][XPos(t)].v : i \in {r \in 1..Len(t.data) : t.data[r][XPos(t)].k = "num"}}

ClipLow(lo, limit) == Max2(lo, limit)
ClipHigh(hi, limit) == Min2(hi, limit)

\* lines 128-131: the data limits, and the window clipped to them.  np.nanmin
\* of a column without rows raises ValueError, which nothing catches.
Clip ==
    /\ pc = "clip"
    /\ IF XNumbers(df) = {}
       THEN /\ crash' = "ValueError: zero-size array to reduction operation"
            /\ pc' = "crashed"
            /\ UNCHANGED <<xmin, xmax, tmin, tmax>>
       ELSE /\ xmin' = SetMin(XNumbers(df))
            /\ xmax' = SetMax(XNumbers(df))
            /\ tmin' = ClipLow(tmin, SetMin(XNumbers(df)))
            /\ tmax' = ClipHigh(tmax, SetMax(XNumbers(df)))
            /\ pc' = "filter"
            /\ crash' = crash
    /\ UNCHANGED <<up, cache, runs, downsample, step, messages, load_exc, executed, raw, df,
                   df_win, ycols_all, default_sel, sel, plot_df, fig, summary,
                   first_load, located>>

\* a mask with both bounds excluded
MaskStrict(t, lo, hi) ==
    {i \in 1..Len(t.data) : t.data[i][XPos(t)].k = "num"
                            /\ t.data[i][XPos(t)].v > lo /\ t.data[i][XPos(t)].v < hi}
\* mask = (df["X_Value"] >= tmin) & (df["X_Value"] <= tmax)
Mask(t, lo, hi) ==
    {i \in 1..Len(t.data) : t.data[i][XPos(t)].k = "num"
                            /\ t.data[i][XPos(t)].v >= lo /\ t.data[i][XPos(t)].v <= hi}

\* lines 133-134: df_win = df.loc[mask].copy()
Filter ==
    /\ pc = "filter"
    /\ df_win' = TakeRows(df, Ascending(Mask(df, tmin, tmax)))
    /\ pc' = "columns"
    /\ UNCHANGED <<up, cache, runs, tmin, tmax, downsample, step, messages, load_exc,
                   executed, raw, df, crash, xmin, xmax, ycols_all, default_sel, sel,
                   plot_df, fig, summary, first_load, located>>

\* [c for c in df.columns if c != "X_Value"]
SignalColumns(t) ==
    LET idx == Ascending({j \in 1..Len(t.columns) : t.columns[j] # XVALUE})
    IN [k \in 1..Len(idx) |-> t.columns[idx[k]]]

InSeq(x, q) == \E i \in 1..Len(q) : q[i] = x

\* lines 136-140
Columns ==
    /\ pc = "columns"
    /\ ycols_all' = SignalColumns(df)
    /\ IF SignalColumns(df) = <<>>
       THEN /\ messages' = messages \o Message("error", "No data columns to plot besides X_Value.")
            /\ pc' = "stopped"
       ELSE /\ messages' = messages
            /\ pc' = "select"
    /\ UNCHANGED <<up, cache, runs, tmin, tmax, downsample, step, load_exc, executed, raw, df,
                   crash, xmin, xmax, df_win, default_sel, sel, plot_df, fig, summary,
                   first_load, located>>

\* [TEMP_TO_LABEL[i] for i in sorted(keys) if TEMP_TO_LABEL.get(i) in ycols_all]
GroupLabels(keys, ycols) ==
    LET idx == Ascending({i \in keys : InSeq(TEMP_TO_LABEL[i], ycols)})
    IN [k \in 1..Len(idx) |-> TEMP_TO_LABEL[idx[k]]]

\* the selections a user can make in the multiselect: options in option order
Picks(options) ==
    {[k \in 1..Cardinality(P) |-> options[Ascending(P)[k]]] : P \in SUBSET (1..Len(options))}

\* lines 142-164: the quick buttons (at most one is pressed in a run), the
\* default selection, and the multiselect's value
Select ==
    /\ pc = "select"
    /\ \E pressed \in {"none", "Show All", "Only Dump", "Only Scrapers"} :
         LET dump_labels == GroupLabels(DUMP_KEYS, ycols_all)
             scraper_labels == GroupLabels(SCRAPER_KEYS, ycols_all)
             d == CASE pressed = "Only Dump" ->
                         IF dump_labels # <<>> THEN dump_labels ELSE ycols_all
                    [] pressed = "Only Scrapers" ->
                         IF scraper_labels # <<>> THEN scraper_labels ELSE ycols_all
                    [] OTHER -> ycols_all
         IN /\ default_sel' = d
            /\ sel' \in Picks(ycols_all) \cup {d}
    /\ pc' = "render"
    /\ UNCHANGED <<up, cache, runs, tmin, tmax, downsample, step, messages, load_exc,
                   executed, raw, df, crash, xmin, xmax, df_win, ycols_all, plot_df, fig,
                   summary, first_load, located>>

\* a stride that starts at position n - 1 instead of 0
EveryNthFromOne(t, n) == TakeRows(t, Ascending({i \in 1..Len(t.data) : i % n = 0}))
\* df.iloc[::n, :]: the rows at positions 0, n, 2n, ...
EveryNth(t, n) == TakeRows(t, Ascending({i \in 1..Len(t.data) : (i - 1) % n = 0}))

\* df[c] as values: per row, the cells of every column labelled c
Frame(t, c) ==
    LET idx == Ascending(Positions(t, c))
    IN [i \in 1..Len(t.data) |-> [k \in 1..Len(idx) |-> t.data[i][idx[k]]]]

\* build_figure: one trace per column of ycols
build_figure(t, ycols) ==
    [drawn |-> TRUE,
     traces |-> [k \in 1..Len(ycols) |->
                    [name |-> ycols[k], x |-> Frame(t, XVALUE), y |-> Frame(t, ycols[k])]]]

\* df.head(n)
head(t, n) == TakeRows(t, [i \in 1..Min2(n, Len(t.data)) |-> i])

\* the figure's columns: sel if sel else ycols_all
PlottedColumns(chosen, all) == IF chosen # <<>> THEN chosen ELSE all

\* lines 166-179: downsample, figure, summary and table preview
Render ==
    /\ pc = "render"
    /\ plot_df' = IF downsample /\ step > 1 THEN EveryNth(df_win, step) ELSE df_win
    /\ fig' = build_figure(plot_df', PlottedColumns(sel, ycols_all))
    /\ summary' = [shown |-> TRUE, xmin |-> xmin, xmax |-> xmax, tmin |-> tmin,
                   tmax |-> tmax, rows |-> Len(df_win.data), preview |-> head(df_win, HeadRows)]
    /\ pc' = "done"
    /\ UNCHANGED <<up, cache, runs, tmin, tmax, downsample, step, messages, load_exc,
                   executed, raw, df, crash, xmin, xmax, df_win, ycols_all, default_sel, sel,
                   first_load, located>>

\* a widget changes after the run ended: the script runs again from the top
\* with the same memo; the uploader hands the script the upload object of the
\* last run, read position included, or a new object for the same bytes
Rerun ==
    /\ pc \in {"done", "stopped", "crashed"}
    /\ ~up.none
    /\ runs < MaxRuns
    /\ up' \in {up, Upload(up.data)}
    /\ RunStart
    /\ UNCHANGED <<cache, runs, first_load, located>>

\* a widget changes while the run is past the load: Streamlit stops the run
\* and starts the next
Interrupt ==
    /\ pc = "clip"
    /\ runs < MaxRuns
    /\ up' \in {up, Upload(up.data)}
    /\ RunStart
    /\ UNCHANGED <<cache, runs, first_load, located>>

\* ------------------------------------------------------------ the uploads
\* the bytes of a file: lines of tab-separated fields
FileBytes(lines) == Join([i \in 1..Len(lines) |-> Join(lines[i], TAB)], NL)
SeqsUpTo(S, n) == UNION {[1..k -> S] : k \in 0..n}

\* SpecLocate: texts of up to MaxLines lines: the sentinel bare, padded with
\* blanks and tabs, inside a longer line, behind an invalid byte; other lines
LocLines == {<<SENTINEL>>, <<SP, SENTINEL, TAB>>, <<SENTINEL, "x">>, <<"x">>, <<>>,
             <<INVALID, SENTINEL>>}
LocTexts == {Join(ls, NL) : ls \in SeqsUpTo(LocLines, MaxLines)}

\* a data row: the time field, one field per further column, and on a wide
\* row one field more
DataRow(t, sig, ncols, wide) ==
    <<t>> \o [j \in 1..(ncols - 1) |-> sig] \o (IF wide THEN <<<<"5">>>> ELSE <<>>)

\* Spec: one header block, then a table whose time fields are numbers or a
\* text and whose signal fields are numbers; and three files that do not
\* load: no sentinel line, no time column, a row wider than the first
ViewHeaders == {<<XVALUE>>, <<XVALUE, TemperatureCol(0), <<"A">>>>}
ViewTimes == {<<"1">>, <<"2">>, <<"foo">>}
ViewFiles ==
    {FileBytes(<<<<<<"LabVIEW Measurement">>>>, <<<<SENTINEL>>>>, h>>
               \o [i \in 1..Len(ts) |-> DataRow(ts[i], <<"5">>, Len(h), FALSE)]) :
        h \in ViewHeaders, ts \in SeqsUpTo(ViewTimes, MaxRows)}
    \cup {FileBytes(<<<<<<"LabVIEW Measurement">>>>, <<XVALUE, <<"A">>>>, <<<<"1">>, <<"5">>>>>>),
          FileBytes(<<<<<<SENTINEL>>>>, <<<<"Time">>, <<"A">>>>, <<<<"1">>, <<"5">>>>>>),
          FileBytes(<<<<<<SENTINEL>>>>, <<XVALUE, <<"A">>>>, <<<<"1">>, <<"5">>>>,
                      <<<<"2">>, <<"5">>, <<"5">>>>>>)}

\* SpecLoad: headers with blanks around names, repeated names, names that
\* collide after trimming or after renaming, no time column; time and signal
\* fields numeric, text or empty; the last row may be a field wider
LoadHeaders ==
    {<<XVALUE, <<"A">>>>,
     <<XVALUE>>,
     <<<<"A">>, <<"B">>>>,
     <<<<SP, "X_Value", SP>>, <<"A", SP>>>>,
     <<XVALUE, <<"A">>, <<SP, "A">>>>,
     <<XVALUE, <<"A">>, <<"A">>>>,
     <<XVALUE, <<SP, "X_Value">>>>,
     <<XVALUE, TemperatureCol(0)>>,
     <<XVALUE, TEMP_TO_LABEL[0], TemperatureCol(0)>>}
LoadTimes == {<<"1">>, <<"foo">>, <<>>}
LoadSignals == {<<"5">>, <<"foo">>, <<>>}
LoadRows(ncols) ==
    {[i \in 1..Len(cells) |->
         DataRow(cells[i][1], cells[i][2], ncols, wide /\ i = Len(cells))] :
        cells \in SeqsUpTo(LoadTimes \X LoadSignals, MaxRows), wide \in BOOLEAN}
OneSentinel == <<<<<<"LabVIEW Measurement">>>>, <<<<SENTINEL>>>>>>
LoadPreambles == {<<>>, <<<<<<"LabVIEW Measurement">>>>>>,
                  <<<<<<SENTINEL>>>>, <<<<"Channels">>, <<"2">>>>, <<<<SP, SENTINEL>>, <<>>>>>>}
LoadFiles ==
    UNION {{FileBytes(OneSentinel \o <<h>> \o rows) : rows \in LoadRows(Len(h))} :
              h \in LoadHeaders}
    \cup {FileBytes(p \o <<<<XVALUE, <<"A">>>>>> \o rows) : p \in LoadPreambles, rows \in LoadRows(2)}

\* the user uploads a file: the script runs again with the new upload
UploadFrom(files) ==
    /\ up.none
    /\ pc = "stopped"
    /\ \E f \in files : up' = Upload(f)
    /\ RunStart
    /\ UNCHANGED <<cache, runs, first_load, located>>

UploadView == UploadFrom(ViewFiles)
UploadLoad == UploadFrom(LoadFiles)

\* ------------------------------------------------------------ specifications
Next == UploadView \/ Sidebar \/ Load \/ Clip \/ Filter \/ Columns \/ Select \/ Render
        \/ Rerun \/ Interrupt
Spec == Init /\ [][Next]_vars

\* the load alone, on the richer files, every widget at its default
NextLoad == UploadLoad \/ SidebarDefaults \/ Load \/ Rerun \/ Interrupt
SpecLoad == Init /\ [][NextLoad]_vars

\* the header locator alone
InitLocate ==
    /\ up \in {Upload(t) : t \in LocTexts} /\ cache = NoEntry /\ runs = 0
    /\ pc = "sidebar"
    /\ tmin = -1 /\ tmax = -1 /\ downsample = FALSE /\ step = 1
    /\ messages = <<>> /\ load_exc = "unset" /\ executed = FALSE /\ raw = <<>>
    /\ df = NoTable /\ crash = "" /\ xmin = -1 /\ xmax = -1
    /\ df_win = NoTable /\ ycols_all = <<>> /\ default_sel = <<>> /\ sel = <<>>
    /\ plot_df = NoTable /\ fig = NoFigure /\ summary = NoSummary
    /\ first_load = NoOutcome /\ located = NotLocated
Locate ==
    /\ located = NotLocated
    /\ located' = find_data_start_from_bytes(up.data)
    /\ UNCHANGED <<up, cache, runs, pc, tmin, tmax, downsample, step, messages, load_exc,
                   executed, raw, df, crash, xmin, xmax, df_win, ycols_all, default_sel, sel,
                   plot_df, fig, summary, first_load>>
SpecLocate == InitLocate /\ [][Locate]_vars

\* ------------------------------------------------------------------ claims
\* a line whose content, blanks and tabs around it removed, is the sentinel
IsSentinelLine(line) ==
    \E p \in 1..Len(line) :
        line[p] = SENTINEL /\ \A q \in 1..Len(line) : q # p => line[q] \in WS
SentinelLines(bytes) ==
    LET lines == splitlines(decode(bytes))
    IN {i \in 1..Len(lines) : IsSentinelLine(lines[i])}

\* the table load_lvm has after header trimming and empty-column removal,
\* before any coercion, for the bytes it read in this run
ParsedOf(bytes) ==
    LET loc == find_data_start_from_bytes(bytes) IN read_csv(loc.text, loc.start_row)
CleanedOf(bytes) == DropEmptyColumns(StripColumns(ParsedOf(bytes).df))
\* its rows whose time value is a number, in file order
NumericTimeRows(P) ==
    Ascending({i \in 1..Len(P.data) :
                 LET c == P.data[i][XPos(P)]
                 IN c.k = "num" \/ (c.k = "str" /\ IsNumber(c.s))})

\* C1: when the decoded text has a line whose trimmed content is the sentinel,
\* find_data_start_from_bytes returns (index of the last such line) + 1; a line
\* that only contains the sentinel is not a match.
C1_DataStartFollowsLastSentinel ==
    (located # NotLocated /\ SentinelLines(up.data) # {})
        => (located.exc = "" /\ located.start_row = SetMax(SentinelLines(up.data)))

\* C1 witness: two sentinel lines, and after the last of them a line that
\* contains the sentinel without being one.
C1_Witness ==
    /\ located.exc = ""
    /\ Cardinality(SentinelLines(up.data)) >= 2
    /\ LET lines == splitlines(decode(up.data))
       IN \E i \in 1..Len(lines) : /\ i > SetMax(SentinelLines(up.data))
                                   /\ Contains(lines[i], SENTINEL)

\* C2: a load failure (no sentinel line, no X_Value column after trimming and
\* empty-column removal, an error of the tabular parser) leaves no table; the
\* handler shows exactly one error, the run stops before filtering, column
\* selection and rendering, and no exception is left uncaught.  The cause of
\* the failure is compared with the bytes read when the load step has just run.
C2_LoadFailureIsOneErrorAndStop ==
    /\ load_exc \notin {"unset", ""} =>
          /\ df.none /\ pc = "stopped" /\ crash = ""
          /\ Cardinality(Errors) = 1
          /\ messages[Len(messages)] = [kind |-> "error", text |-> load_exc]
          /\ df_win.none /\ ycols_all = <<>> /\ ~fig.drawn /\ ~summary.shown
    /\ (executed /\ pc \in {"clip", "stopped"}) =>
          IF SentinelLines(raw) = {} THEN load_exc = NoSentinelMsg
          ELSE \E p \in {ParsedOf(raw)} :
                  IF p.exc # "" THEN load_exc = p.exc
                  ELSE Positions(DropEmptyColumns(StripColumns(p.df)), XVALUE) = {}
                          => load_exc = NoXValueMsg
    /\ load_exc = "" => (~df.none /\ Positions(df, XVALUE) # {})

\* C2 witness: a file with lines but no sentinel line was read, and the run
\* stopped on the error.
C2_Witness ==
    /\ executed /\ raw # <<>> /\ SentinelLines(raw) = {}
    /\ load_exc = NoSentinelMsg /\ pc = "stopped"

\* C3: in a table load_lvm returns the X_Value column holds only numbers: the
\* rows whose time value does not parse are removed whole, the others are kept
\* in their order, and the row labels are 0..n-1.
C3_TimeColumnNumericRowsKeptInOrder ==
    (executed /\ load_exc = "") =>
        LET P == CleanedOf(raw)
            K == NumericTimeRows(P)
            x == XPos(P)
        IN /\ \A i \in 1..Len(df.data) : df.data[i][XPos(df)].k = "num"
           /\ df.index = [i \in 1..Len(df.data) |-> Num(i - 1)]
           /\ Len(df.data) = Len(K)
           /\ \A r \in 1..Len(K) :
                 /\ df.data[r][x] = ToNumber(P.data[K[r]][x])
                 /\ \A j \in 1..Len(P.columns) :
                       df.data[r][j] \in {P.data[K[r]][j], ToNumber(P.data[K[r]][j])}

\* C3 witness: the first parsed row was dropped and a later row was kept.
C3_Witness ==
    /\ executed /\ load_exc = ""
    /\ Len(df.data) >= 1
    /\ NumericTimeRows(CleanedOf(raw))[1] > 1

\* C4 (as claimed): every value of a signal column that parses becomes a
\* number and every other value stays text, value by value, and no row is
\* dropped for a signal column.
C4_SignalValuesCoercedOneByOne ==
    (executed /\ load_exc = "") =>
        LET P == CleanedOf(raw)
            K == NumericTimeRows(P)
        IN /\ Len(df.data) = Len(K)
           /\ \A r \in 1..Len(K) : \A j \in 1..Len(P.columns) :
                 j # XPos(P) => df.data[r][j] = ToNumber(P.data[K[r]][j])

\* C4 (amended): a signal column is coerced as a whole: when every value left
\* in it parses (or is missing) its values become numbers; when one value does
\* not parse the column stays as the tabular parser gave it, every value text;
\* no row is dropped for a signal column.
C4_SignalColumnCoercedAsAWhole ==
    (executed /\ load_exc = "") =>
        LET P == CleanedOf(raw)
            K == NumericTimeRows(P)
        IN /\ Len(df.data) = Len(K)
           /\ \A j \in 1..Len(P.columns) :
                 j # XPos(P) =>
                    IF \A r \in 1..Len(K) : Parses(P.data[K[r]][j])
                    THEN \A r \in 1..Len(K) : df.data[r][j] = ToNumber(P.data[K[r]][j])
                    ELSE \A r \in 1..Len(K) : df.data[r][j] = P.data[K[r]][j]

\* C4 witness: two rows kept, a signal column holding the texts 5 and foo.
C4_Witness ==
    /\ executed /\ load_exc = ""
    /\ Len(df.data) = 2
    /\ \E j \in 1..Len(df.columns) :
          df.data[1][j] = Str(<<"5">>) /\ df.data[2][j] = Str(<<"foo">>)

\* C5: the window used for filtering, after the sidebar's correction and the
\* clip to the data limits, has tmin <= tmax.
C5_WindowNeverInverted == xmin # -1 => tmin <= tmax

\* C6: df_win holds exactly the rows of the table with tmin <= X_Value <= tmax,
\* bounds included, in their order, and the table itself is unchanged.
C6_WindowedViewIsInclusiveRange ==
    ~df_win.none =>
        LET x == XPos(df)
            K == Ascending({i \in 1..Len(df.data) :
                              tmin <= df.data[i][x].v /\ df.data[i][x].v <= tmax})
        IN /\ df_win.columns = df.columns
           /\ Len(df_win.data) = Len(K)
           /\ \A r \in 1..Len(K) : df_win.data[r] = df.data[K[r]]
           /\ df = cache.value

\* C6 witness: a row whose time equals tmin is in the view and another row of
\* the table is not.
C6_Witness ==
    /\ ~df_win.none
    /\ Len(df_win.data) < Len(df.data)
    /\ \E r \in 1..Len(df_win.data) : df_win.data[r][XPos(df)].v = tmin

\* C7: every call of load_lvm on the same upload gives what the first call
\* gave, the same table or the same failure.
C7_SameOutcomeOnEveryCall ==
    load_exc # "unset" => [exc |-> load_exc, df |-> df] = first_load

\* C8: in a table load_lvm returns the column names are pairwise distinct,
\* carry no blank at either end, and follow the file's order.
C8_ColumnNamesDistinctAndTrimmed ==
    (executed /\ load_exc = "") =>
        /\ \A i, j \in 1..Len(df.columns) : i # j => df.columns[i] # df.columns[j]
        /\ \A j \in 1..Len(df.columns) :
              df.columns[j] # <<>> /\ df.columns[j][1] \notin WS
              /\ df.columns[j][Len(df.columns[j])] \notin WS
        /\ LET P == CleanedOf(raw)
           IN /\ Len(df.columns) = Len(P.columns)
              /\ \A j \in 1..Len(P.columns) :
                    \/ df.columns[j] = P.columns[j]
                    \/ \E idx \in DOMAIN TEMP_TO_LABEL :
                          P.columns[j] = TemperatureCol(idx) /\ df.columns[j] = TEMP_TO_LABEL[idx]

C10_RunEndsInChartOrError ==
    load_exc = "" =>
        /\ pc # "crashed" /\ crash = ""
        /\ pc = "stopped" => Cardinality(Errors) = 1
        /\ pc = "done" =>
              /\ fig.drawn /\ fig.traces # <<>>
              /\ \A r \in 1..Len(fig.traces) :
                    fig.traces[r].name # XVALUE /\ InSeq(fig.traces[r].name, df.columns)

====
